---- MODULE Spec2Model ----
(***************************************************************************)
(* State-machine model of src/main.py: a FastAPI service with CRUD         *)
(* endpoints over three SQLModel tables (heroes, equipos, villanos), a     *)
(* global X-API-Key dependency, a Session-per-request dependency and an    *)
(* engine created by the startup event.                                    *)
(*                                                                         *)
(* Optional values are tuples: <<>> is None, <<v>> is the value v.         *)
(* A JSON object is a function from the keys it carries to such values.    *)
(***************************************************************************)
EXTENDS Integers, Sequences, FiniteSets, TLC

\* ------------------------------------------------------------- bounds
\* Largest primary key the model lets a table hold.
MaxId == 2
\* Number of requests the host may have in flight at once (SpecConc).
NumProcs == 2
\* Rows beyond the page cap that the list specification stores.
ExtraFilas == 2

\* ------------------------------------------------- program constants
\* Query(le=100) and the default of limite.
LimiteMaximo == 100

Nulo == <<>>
Algun(v) == <<v>>

Procs == 1..NumProcs
Ids == 1..MaxId
Entidades == {"heroes", "equipos", "villanos"}

\* ------------------------------------------------- entity definitions
\* Column names of each table, without the primary key.
Campos(e) ==
  CASE e = "heroes" -> {"nombre", "edad", "nombre_secreto", "poder"}
    [] e = "equipos" -> {"nombre_equipo", "base_operaciones", "fundacion_anio"}
    [] e = "villanos" -> {"nombre_villano", "amenaza_nivel", "ultima_ubicacion"}

\* Columns declared without Optional: None is not a valid value for them.
Requeridos(e) ==
  CASE e = "heroes" -> {"nombre", "nombre_secreto"}
    [] e = "equipos" -> {"nombre_equipo", "base_operaciones", "fundacion_anio"}
    [] e = "villanos" -> {"nombre_villano", "amenaza_nivel"}

\* detail of the HTTPException(404) each entity's handlers raise (written
\* here without the accent of the source's string).
NoEncontrado(e) ==
  CASE e = "heroes" -> "Heroe no encontrado"
    [] e = "equipos" -> "Equipo no encontrado"
    [] e = "villanos" -> "Villano no encontrado"

\* The path operations registered on the app: method, entity, item path?
Rutas ==
  {<<"POST", "heroes", FALSE>>, <<"GET", "heroes", FALSE>>,
   <<"GET", "heroes", TRUE>>, <<"PATCH", "heroes", TRUE>>,
   <<"DELETE", "heroes", TRUE>>,
   <<"POST", "equipos", FALSE>>, <<"GET", "equipos", FALSE>>,
   <<"PATCH", "equipos", TRUE>>, <<"DELETE", "equipos", TRUE>>,
   <<"POST", "villanos", FALSE>>, <<"GET", "villanos", FALSE>>,
   <<"PATCH", "villanos", TRUE>>, <<"DELETE", "villanos", TRUE>>}

\* ------------------------------------------------------ pure helpers
\* The table model parsed with the optional columns left at their default.
InstanciaSoloRequeridos(e, cuerpo) ==
  [f \in Campos(e) \cup {"id"} |->
     IF f \in DOMAIN cuerpo /\ f \in Requeridos(e) \cup {"id"} THEN cuerpo[f] ELSE Nulo]

\* A request body parsed as the table model: keys the body does not carry
\* take the field's default, None.  The primary key is a field like any other.
Instancia(e, cuerpo) ==
  [f \in Campos(e) \cup {"id"} |-> IF f \in DOMAIN cuerpo THEN cuerpo[f] ELSE Nulo]

\* Validation of a table-model instance: every non-Optional column has a value.
Valida(e, inst) == \A f \in Requeridos(e) : inst[f] # Nulo

\* A request body parsed as the partial-update shape: every field defaults
\* to None, and fields_set remembers which keys the body carried.
Actualizacion(e, cuerpo) ==
  [valores |-> [f \in Campos(e) |-> IF f \in DOMAIN cuerpo THEN cuerpo[f] ELSE Nulo],
   fields_set |-> DOMAIN cuerpo \cap Campos(e)]

\* model_dump without exclude_unset: every field, unset ones as None.
model_dump_todo(upd) == upd.valores

\* model_dump(exclude_unset=True): only the fields the body carried.
model_dump(upd) == [f \in upd.fields_set |-> upd.valores[f]]

\* cls.model_validate(obj, update=datos): a NEW instance holding obj's
\* attributes overlaid with datos.  obj itself is not touched.
model_validate(obj, datos) ==
  [f \in DOMAIN obj |-> IF f \in DOMAIN datos THEN datos[f] ELSE obj[f]]

\* The handler discards model_validate's return value, so the object it
\* adds to the session is the one it loaded, attribute for attribute.
ObjetoTrasValidar(db, datos) == db

\* verificar_acceso with the gate left open for a missing header.
verificar_acceso_sin_none(api_key, secreta) == api_key = Nulo \/ api_key = secreta

\* verificar_acceso: TRUE when the request passes the gate.
verificar_acceso(api_key, secreta) == ~(api_key = Nulo \/ api_key # secreta)

\* obtener_sesion / crear_db_y_tablas without the None check.
motor_ausente_sin_guardia(motor) == FALSE

\* The guard of obtener_sesion and crear_db_y_tablas: motor_db is None.
motor_ausente(motor) == motor = Nulo

\* Query(le=100) dropped from limite.
limite_valido_sin_tope(limite) == TRUE

\* Query(le=100): a supplied limite above the cap fails validation.
limite_valido(limite) == limite = Nulo \/ limite[1] <= LimiteMaximo

\* The keys of a table in ascending order (the order rows are listed in).
Ordenados(S) ==
  IF S = {} THEN <<>>
  ELSE LET mayor == CHOOSE x \in S : \A y \in S : y <= x
       IN SelectSeq([i \in 1..mayor |-> i], LAMBDA i : i \in S)

\* select(...).offset(d).limit(l) over a table t.
Pagina(t, d, l) ==
  LET ids == Ordenados(DOMAIN t)
      hasta == IF d + l < Len(ids) THEN d + l ELSE Len(ids)
  IN [i \in 1..(IF hasta > d THEN hasta - d ELSE 0) |-> t[ids[d + i]]]

\* select(...) with no offset or limit: every row.
Todas(t) == LET ids == Ordenados(DOMAIN t) IN [i \in 1..Len(ids) |-> t[ids[i]]]

\* A response: status code, detail of an error body, the rows of a success
\* body, the flag of {"ok": True}, and the exception that ended the handler.
Respuesta(status, detail, filas, ok) ==
  [status |-> status, detail |-> detail, filas |-> filas, ok |-> ok, excepcion |-> ""]

Error(status, detail, excepcion) ==
  [status |-> status, detail |-> detail, filas |-> <<>>, ok |-> FALSE,
   excepcion |-> excepcion]

\* An exception the handler does not catch: 500.
Error500(excepcion) == Error(500, "Internal Server Error", excepcion)

\* ------------------------------------------------------------- state
VARIABLES
  DATABASE_URL,       \* os.environ.get("DATABASE_URL"): Nulo or <<url>>
  API_CLAVE_SECRETA,  \* os.environ.get("API_CLAVE_SECRETA"): Nulo or <<key>>
  fase,               \* "import", "startup", "serving" or "aborted"
  motor_db,           \* the global engine: Nulo or <<"engine">>
  tablas_creadas,     \* metadata.create_all has run against the database
  tabla,              \* tabla[e]: primary key -> row, the table's content
  secuencia,          \* secuencia[e]: next value of the autoincrement key
  sesiones,           \* processes whose Session(motor_db) is open
  pc,                 \* pc[p]: "idle", "sesion" (dependencies solved),
                      \* "cargado" (sesion.get returned a row) or "hecho"
  pet,                \* pet[p]: the request p handles, Nulo or <<request>>
  obj,                \* obj[p]: the row sesion.get loaded, Nulo or <<row>>
  resp                \* resp[p]: the response to pet[p], Nulo or <<response>>

vars == <<DATABASE_URL, API_CLAVE_SECRETA, fase, motor_db, tablas_creadas,
          tabla, secuencia, sesiones, pc, pet, obj, resp>>

entorno == <<DATABASE_URL, API_CLAVE_SECRETA>>
almacen == <<tabla, secuencia>>
arranque == <<fase, motor_db, tablas_creadas>>

\* Module state before the import runs; the database is empty.
Init ==
  /\ DATABASE_URL \in {Nulo, Algun("postgresql://db")}
  /\ API_CLAVE_SECRETA \in {Nulo, Algun("s3cr3t")}
  /\ fase = "import"
  /\ motor_db = Nulo
  /\ tablas_creadas = FALSE
  /\ tabla = [e \in Entidades |-> <<>>]
  /\ secuencia = [e \in Entidades |-> 1]
  /\ sesiones = {}
  /\ pc = [p \in Procs |-> "idle"]
  /\ pet = [p \in Procs |-> Nulo]
  /\ obj = [p \in Procs |-> Nulo]
  /\ resp = [p \in Procs |-> Nulo]

\* ----------------------------------------------------------- start-up
\* Module import: a missing DATABASE_URL raises and the process never starts.
Importar ==
  /\ fase = "import"
  /\ fase' = IF DATABASE_URL = Nulo THEN "aborted" ELSE "startup"
  /\ UNCHANGED <<entorno, motor_db, tablas_creadas, almacen, sesiones, pc, pet, obj, resp>>

\* The startup event.  create_engine may raise (motor_db stays None);
\* create_all connects and may raise in crear_db_y_tablas.  An exception in
\* a startup handler makes the host abort before serving.
al_iniciar(resultado) ==
  /\ fase = "startup"
  /\ motor_db' = IF resultado = "create_engine_falla" THEN motor_db ELSE Algun("engine")
  /\ tablas_creadas' = (resultado = "ok" /\ ~motor_ausente(motor_db'))
  /\ fase' = IF tablas_creadas' THEN "serving" ELSE "aborted"
  /\ UNCHANGED <<entorno, almacen, sesiones, pc, pet, obj, resp>>

\* A host that does not emit the startup event (lifespan off, a test client
\* used without its context manager) serves with motor_db still None.
ServirSinStartup ==
  /\ fase = "startup"
  /\ fase' = "serving"
  /\ UNCHANGED <<entorno, motor_db, tablas_creadas, almacen, sesiones, pc, pet, obj, resp>>

\* ------------------------------------------------------------ requests
Peticion(metodo, entidad, id, clave, cuerpo, desplazamiento, limite) ==
  [metodo |-> metodo, entidad |-> entidad, id |-> id, clave |-> clave,
   cuerpo |-> cuerpo, desplazamiento |-> desplazamiento, limite |-> limite]

\* Session.__exit__ skipped when the request ends in an exception.
CerrarSesionSoloExito(abiertas, p, status) ==
  IF status = 200 THEN abiertas \ {p} ELSE abiertas

\* obtener_sesion's with-block: the session is closed however the request ends.
CerrarSesion(abiertas, p, status) == abiertas \ {p}

\* The request ends: the response goes out and the session, if any, is closed.
Terminar(p, r) ==
  /\ resp' = [resp EXCEPT ![p] = Algun(r)]
  /\ pc' = [pc EXCEPT ![p] = "hecho"]
  /\ sesiones' = CerrarSesion(sesiones, p, r.status)

\* POST requests without an id that are in flight for entity e.
CreandoSinId(e) ==
  {q \in Procs : /\ pc[q] = "sesion"
                 /\ pet[q][1].metodo = "POST"
                 /\ pet[q][1].entidad = e
                 /\ "id" \notin DOMAIN pet[q][1].cuerpo}

\* A request arrives: routing, then the global dependency verificar_acceso,
\* then obtener_sesion.
Recibir(p, r) ==
  /\ fase = "serving"
  /\ pc[p] = "idle"
  /\ (r.metodo = "POST" /\ "id" \notin DOMAIN r.cuerpo)
       => secuencia[r.entidad] + Cardinality(CreandoSinId(r.entidad)) <= MaxId
  /\ pet' = [pet EXCEPT ![p] = Algun(r)]
  /\ IF <<r.metodo, r.entidad, r.id # Nulo>> \notin Rutas
       THEN Terminar(p, Error(405, "Method Not Allowed", "HTTPException"))
     ELSE IF ~verificar_acceso(r.clave, API_CLAVE_SECRETA)
       THEN Terminar(p, Error(401, "Acceso Denegado: Clave API invalida o faltante.", "HTTPException"))
     ELSE IF motor_ausente(motor_db)
       THEN Terminar(p, Error500("Exception"))
     ELSE /\ pc' = [pc EXCEPT ![p] = "sesion"]
          /\ sesiones' = sesiones \cup {p}
          /\ UNCHANGED resp
  /\ UNCHANGED <<entorno, arranque, almacen, obj>>

\* The response has gone out and the request's scope is torn down.
Entregar(p) ==
  /\ pc[p] = "hecho"
  /\ pc' = [pc EXCEPT ![p] = "idle"]
  /\ pet' = [pet EXCEPT ![p] = Nulo]
  /\ obj' = [obj EXCEPT ![p] = Nulo]
  /\ resp' = [resp EXCEPT ![p] = Nulo]
  /\ UNCHANGED <<entorno, arranque, almacen, sesiones>>

\* p is in handler (metodo, e) with its dependencies solved.
En(p, estado, metodo, e, conId) ==
  /\ pc[p] = estado
  /\ pet[p] # Nulo
  /\ pet[p][1].metodo = metodo
  /\ pet[p][1].entidad = e
  /\ (pet[p][1].id # Nulo) = conId

\* ----------------------------------------------------------- storage
\* INSERT of fila under primary key id.
Insertar(t, id, fila) ==
  [k \in DOMAIN t \cup {id} |-> IF k = id THEN fila ELSE t[k]]

\* DELETE ... WHERE id = id: removes the row if it is there.
Borrar(t, id) == [k \in DOMAIN t \ {id} |-> t[k]]

\* The primary key an INSERT stores: the instance's own id when it has one,
\* the next value of the table's sequence otherwise.
ClaveInsertada(inst, seq) == IF inst.id = Nulo THEN seq ELSE inst.id[1]

FallosLectura == {"no", "select"}
FallosEscritura == {"no", "commit", "refresh"}

\* ------------------------------------------------------------ handlers
\* POST /{e}/: sesion.add, sesion.commit, sesion.refresh, return the object.
crear(p, e, fallo) ==
  /\ En(p, "sesion", "POST", e, FALSE)
  /\ LET inst == Instancia(e, pet[p][1].cuerpo)
         id == ClaveInsertada(inst, secuencia[e])
         fila == [inst EXCEPT !.id = Algun(id)]
     IN IF ~Valida(e, inst)
          THEN /\ Terminar(p, Error(422, "Unprocessable Entity", "RequestValidationError"))
               /\ UNCHANGED almacen
        ELSE IF fallo = "commit"
          THEN /\ Terminar(p, Error500("OperationalError"))
               /\ UNCHANGED almacen
        ELSE /\ secuencia' = IF inst.id = Nulo
                               THEN [secuencia EXCEPT ![e] = @ + 1]
                               ELSE secuencia
             /\ IF id \in DOMAIN tabla[e]
                  THEN /\ Terminar(p, Error500("IntegrityError"))
                       /\ UNCHANGED tabla
                  ELSE /\ tabla' = [tabla EXCEPT ![e] = Insertar(@, id, fila)]
                       /\ IF fallo = "refresh"
                            THEN Terminar(p, Error500("OperationalError"))
                            ELSE Terminar(p, Respuesta(200, "", <<fila>>, FALSE))
  /\ UNCHANGED <<entorno, arranque, pet, obj>>

\* GET /{e}/: heroes page with offset and limit, the others return all rows.
leer_lista(p, e, fallo) ==
  /\ En(p, "sesion", "GET", e, FALSE)
  /\ LET r == pet[p][1]
         d == IF r.desplazamiento = Nulo THEN 0 ELSE r.desplazamiento[1]
         l == IF r.limite = Nulo THEN LimiteMaximo ELSE r.limite[1]
     IN IF e = "heroes" /\ ~limite_valido(r.limite)
          THEN Terminar(p, Error(422, "Unprocessable Entity", "RequestValidationError"))
        ELSE IF fallo = "select"
          THEN Terminar(p, Error500("OperationalError"))
        ELSE Terminar(p, Respuesta(200, "",
                         IF e = "heroes" THEN Pagina(tabla[e], d, l) ELSE Todas(tabla[e]),
                         FALSE))
  /\ UNCHANGED <<entorno, arranque, almacen, pet, obj>>

\* GET /{e}/{id}: sesion.get, 404 when there is no such row.
leer_uno(p, e, fallo) ==
  /\ En(p, "sesion", "GET", e, TRUE)
  /\ LET id == pet[p][1].id[1]
     IN IF fallo = "select"
          THEN Terminar(p, Error500("OperationalError"))
        ELSE IF id \notin DOMAIN tabla[e]
          THEN Terminar(p, Error(404, NoEncontrado(e), "HTTPException"))
        ELSE Terminar(p, Respuesta(200, "", <<tabla[e][id]>>, FALSE))
  /\ UNCHANGED <<entorno, arranque, almacen, pet, obj>>

\* First half of PATCH and DELETE: sesion.get and the 404 check.
cargar(p, metodo, e, fallo) ==
  /\ En(p, "sesion", metodo, e, TRUE)
  /\ LET id == pet[p][1].id[1]
     IN IF fallo = "select"
          THEN /\ Terminar(p, Error500("OperationalError"))
               /\ UNCHANGED obj
        ELSE IF id \notin DOMAIN tabla[e]
          THEN /\ Terminar(p, Error(404, NoEncontrado(e), "HTTPException"))
               /\ UNCHANGED obj
        ELSE /\ obj' = [obj EXCEPT ![p] = Algun(tabla[e][id])]
             /\ pc' = [pc EXCEPT ![p] = "cargado"]
             /\ UNCHANGED <<resp, sesiones>>
  /\ UNCHANGED <<entorno, arranque, almacen, pet>>

\* Second half of PATCH: model_dump, model_validate, add, commit, refresh.
\* The commit writes the object only if its attributes changed since load;
\* the refresh re-reads the row and fails if it is gone.
actualizar(p, e, fallo) ==
  /\ En(p, "cargado", "PATCH", e, TRUE)
  /\ LET id == pet[p][1].id[1]
         db == obj[p][1]
         datos == model_dump(Actualizacion(e, pet[p][1].cuerpo))
         objeto == ObjetoTrasValidar(db, datos)
         sucio == objeto # db
     IN IF ~Valida(e, model_validate(db, datos))
          THEN /\ Terminar(p, Error500("ValidationError"))
               /\ UNCHANGED almacen
        ELSE IF fallo = "commit"
          THEN /\ Terminar(p, Error500("OperationalError"))
               /\ UNCHANGED almacen
        ELSE IF sucio /\ id \notin DOMAIN tabla[e]
          THEN /\ Terminar(p, Error500("StaleDataError"))
               /\ UNCHANGED almacen
        ELSE /\ tabla' = IF sucio THEN [tabla EXCEPT ![e] = Insertar(@, id, objeto)]
                                  ELSE tabla
             /\ UNCHANGED secuencia
             /\ IF fallo = "refresh"
                  THEN Terminar(p, Error500("OperationalError"))
                ELSE IF id \notin DOMAIN tabla'[e]
                  THEN Terminar(p, Error500("InvalidRequestError"))
                  ELSE Terminar(p, Respuesta(200, "", <<tabla'[e][id]>>, FALSE))
  /\ UNCHANGED <<entorno, arranque, pet, obj>>

\* Second half of DELETE: sesion.delete, sesion.commit, {"ok": True}.
\* Deleting a row that is already gone matches no row and is not an error.
eliminar(p, e, fallo) ==
  /\ En(p, "cargado", "DELETE", e, TRUE)
  /\ LET id == pet[p][1].id[1]
     IN IF fallo = "commit"
          THEN /\ Terminar(p, Error500("OperationalError"))
               /\ UNCHANGED almacen
          ELSE /\ tabla' = [tabla EXCEPT ![e] = Borrar(@, id)]
               /\ UNCHANGED secuencia
               /\ Terminar(p, Respuesta(200, "", <<>>, TRUE))
  /\ UNCHANGED <<entorno, arranque, pet, obj>>

\* ------------------------------------------------- the path operations
crear_heroe(p) == \E f \in FallosEscritura : crear(p, "heroes", f)
leer_heroes(p) == \E f \in FallosLectura : leer_lista(p, "heroes", f)
leer_heroe(p) == \E f \in FallosLectura : leer_uno(p, "heroes", f)
actualizar_heroe(p) ==
  \/ \E f \in FallosLectura : cargar(p, "PATCH", "heroes", f)
  \/ \E f \in FallosEscritura : actualizar(p, "heroes", f)
eliminar_heroe(p) ==
  \/ \E f \in FallosLectura : cargar(p, "DELETE", "heroes", f)
  \/ \E f \in FallosEscritura \ {"refresh"} : eliminar(p, "heroes", f)

crear_equipo(p) == \E f \in FallosEscritura : crear(p, "equipos", f)
leer_equipos(p) == \E f \in FallosLectura : leer_lista(p, "equipos", f)
actualizar_equipo(p) ==
  \/ \E f \in FallosLectura : cargar(p, "PATCH", "equipos", f)
  \/ \E f \in FallosEscritura : actualizar(p, "equipos", f)
eliminar_equipo(p) ==
  \/ \E f \in FallosLectura : cargar(p, "DELETE", "equipos", f)
  \/ \E f \in FallosEscritura \ {"refresh"} : eliminar(p, "equipos", f)

crear_villano(p) == \E f \in FallosEscritura : crear(p, "villanos", f)
leer_villanos(p) == \E f \in FallosLectura : leer_lista(p, "villanos", f)
actualizar_villano(p) ==
  \/ \E f \in FallosLectura : cargar(p, "PATCH", "villanos", f)
  \/ \E f \in FallosEscritura : actualizar(p, "villanos", f)
eliminar_villano(p) ==
  \/ \E f \in FallosLectura : cargar(p, "DELETE", "villanos", f)
  \/ \E f \in FallosEscritura \ {"refresh"} : eliminar(p, "villanos", f)

\* ------------------------------------------------------------- inputs
\* Valid creation payloads, as JSON objects without an id.
Muestras(e) ==
  CASE e = "heroes" ->
         {[nombre |-> Algun("Spider"), nombre_secreto |-> Algun("Peter")],
          [nombre |-> Algun("Iron"), edad |-> Algun(40),
           nombre_secreto |-> Algun("Tony"), poder |-> Algun("armor")]}
    [] e = "equipos" ->
         {[nombre_equipo |-> Algun("Avengers"), base_operaciones |-> Algun("NY"),
           fundacion_anio |-> Algun(1963)]}
    [] e = "villanos" ->
         {[nombre_villano |-> Algun("Loki"), amenaza_nivel |-> Algun(9)]}

\* A payload that lacks a required field.
Incompleta(e) ==
  CASE e = "heroes" -> [nombre |-> Algun("Solo")]
    [] e = "equipos" -> [nombre_equipo |-> Algun("Solo")]
    [] e = "villanos" -> [nombre_villano |-> Algun("Solo")]

\* The JSON object c with the key "id" added.
ConId(c, id) == [k \in DOMAIN c \cup {"id"} |-> IF k = "id" THEN Algun(id) ELSE c[k]]

\* The value a PATCH payload supplies for field f.
ValorNuevo(f) ==
  CASE f = "nombre" -> Algun("Iron")
    [] f = "edad" -> Algun(40)
    [] f = "nombre_secreto" -> Algun("Parker")
    [] f = "poder" -> Algun("webs")
    [] f = "nombre_equipo" -> Algun("X-Men")
    [] f = "base_operaciones" -> Algun("NY")
    [] f = "fundacion_anio" -> Algun(1975)
    [] f = "nombre_villano" -> Algun("Thanos")
    [] f = "amenaza_nivel" -> Algun(9)
    [] f = "ultima_ubicacion" -> Algun("Asgard")

\* PATCH payloads that supply exactly one field, with a value.
ParchesDeUno(e) == {[g \in {f} |-> ValorNuevo(g)] : f \in Campos(e)}

\* PATCH payloads: empty, one field (a value or an explicit null), two fields.
Parches(e) ==
  {<<>>}
  \cup ParchesDeUno(e)
  \cup {[g \in {f} |-> Nulo] : f \in Campos(e)}
  \cup {[g \in S |-> ValorNuevo(g)] : S \in {T \in SUBSET Requeridos(e) : Cardinality(T) = 2}}

\* The creation payload the three-entity specification uses for e.
Muestra(e) ==
  IF e = "heroes"
    THEN [nombre |-> Algun("Spider"), nombre_secreto |-> Algun("Peter")]
    ELSE CHOOSE c \in Muestras(e) : TRUE

\* Its PATCH payloads: empty, each single field, a null for a required field.
ParchesBreves(e) ==
  {<<>>} \cup ParchesDeUno(e)
  \cup {[g \in {CHOOSE f \in Requeridos(e) : TRUE} |-> Nulo]}

Claves == {Nulo, Algun("s3cr3t"), Algun("otra")}
ClaveBuena == Algun("s3cr3t")

\* Every kind of request on entity e with key k: creation payloads drawn
\* from muestras with ids from ids, PATCH payloads from parches.
PeticionesDe(e, k, muestras, ids, parches) ==
  {Peticion("POST", e, Nulo, k, c, Nulo, Nulo) : c \in muestras \cup {Incompleta(e)}}
  \cup {Peticion("POST", e, Nulo, k, ConId(c, i), Nulo, Nulo) : c \in muestras, i \in ids}
  \cup {Peticion("GET", e, Nulo, k, <<>>, Nulo, Nulo)}
  \cup {Peticion("GET", e, Algun(i), k, <<>>, Nulo, Nulo) : i \in Ids}
  \cup {Peticion("PATCH", e, Algun(i), k, c, Nulo, Nulo) : i \in Ids, c \in parches}
  \cup {Peticion("DELETE", e, Algun(i), k, <<>>, Nulo, Nulo) : i \in Ids}

\* One request per path operation, and a DELETE on the collection path
\* (which no path operation serves), to probe the gate with key k.
Sondas(e, k) ==
  {Peticion("POST", e, Nulo, k, c, Nulo, Nulo) : c \in {Muestra(e), Incompleta(e)}}
  \cup {Peticion("GET", e, Nulo, k, <<>>, Nulo, Nulo),
        Peticion("GET", e, Algun(1), k, <<>>, Nulo, Nulo),
        Peticion("PATCH", e, Algun(1), k, [g \in {CHOOSE f \in Requeridos(e) : TRUE} |-> ValorNuevo(g)], Nulo, Nulo),
        Peticion("DELETE", e, Algun(1), k, <<>>, Nulo, Nulo),
        Peticion("DELETE", e, Nulo, k, <<>>, Nulo, Nulo)}

\* GET /heroes/ with query parameters.
Listados(desplazamientos, limites) ==
  {Peticion("GET", "heroes", Nulo, ClaveBuena, <<>>, d, l) :
     d \in desplazamientos, l \in limites}

\* ------------------------------------------------------ specifications
Arrancar ==
  \/ Importar
  \/ \E res \in {"ok", "create_engine_falla", "create_all_falla"} : al_iniciar(res)
  \/ ServirSinStartup

\* Three entities, one request at a time.
Peticiones ==
  UNION {PeticionesDe(e, ClaveBuena, {Muestra(e)}, {}, ParchesBreves(e)) : e \in Entidades}
  \cup UNION {Sondas(e, k) : e \in Entidades, k \in Claves \ {ClaveBuena}}

Next ==
  \/ Arrancar
  \/ \E r \in Peticiones : Recibir(1, r)
  \/ Entregar(1)
  \/ crear_heroe(1) \/ leer_heroes(1) \/ leer_heroe(1)
  \/ actualizar_heroe(1) \/ eliminar_heroe(1)
  \/ crear_equipo(1) \/ leer_equipos(1)
  \/ actualizar_equipo(1) \/ eliminar_equipo(1)
  \/ crear_villano(1) \/ leer_villanos(1)
  \/ actualizar_villano(1) \/ eliminar_villano(1)

Spec == Init /\ [][Next]_vars

\* The heroes endpoints in full: client-supplied ids and query parameters.
PeticionesHeroes ==
  PeticionesDe("heroes", ClaveBuena, Muestras("heroes"), Ids, Parches("heroes"))
  \cup Listados({Nulo, Algun(1)}, {Nulo, Algun(1), Algun(LimiteMaximo + 100)})

NextHeroes ==
  \/ Arrancar
  \/ \E r \in PeticionesHeroes : Recibir(1, r)
  \/ Entregar(1)
  \/ crear_heroe(1) \/ leer_heroes(1) \/ leer_heroe(1)
  \/ actualizar_heroe(1) \/ eliminar_heroe(1)

SpecHeroes == Init /\ [][NextHeroes]_vars

\* Concurrent requests on the heroes endpoints: creations with and without
\* an id, and reads, updates and deletions of the row with key 1.
PeticionesConc ==
  {Peticion("POST", "heroes", Nulo, ClaveBuena, Muestra("heroes"), Nulo, Nulo),
   Peticion("POST", "heroes", Nulo, ClaveBuena, ConId(Muestra("heroes"), 1), Nulo, Nulo),
   Peticion("GET", "heroes", Algun(1), ClaveBuena, <<>>, Nulo, Nulo),
   Peticion("PATCH", "heroes", Algun(1), ClaveBuena, [poder |-> Algun("webs")], Nulo, Nulo),
   Peticion("DELETE", "heroes", Algun(1), ClaveBuena, <<>>, Nulo, Nulo)}

NextConc ==
  \/ Arrancar
  \/ \E p \in Procs :
       \/ \E r \in PeticionesConc : Recibir(p, r)
       \/ Entregar(p)
       \/ crear_heroe(p) \/ leer_heroe(p)
       \/ actualizar_heroe(p) \/ eliminar_heroe(p)

SpecConc == Init /\ [][NextConc]_vars

\* The heroes list over a table of up to LimiteMaximo + ExtraFilas rows.
TamanosLista ==
  {0, 1, LimiteMaximo - 1, LimiteMaximo, LimiteMaximo + 1, LimiteMaximo + ExtraFilas}

FilaLista(i) ==
  [Instancia("heroes", [nombre |-> Algun("Spider"), nombre_secreto |-> Algun("Peter")])
     EXCEPT !.id = Algun(i)]

\* The service up and serving, the heroes table filled by earlier creations.
InitLista ==
  /\ DATABASE_URL = Algun("postgresql://db")
  /\ API_CLAVE_SECRETA = ClaveBuena
  /\ fase = "serving"
  /\ motor_db = Algun("engine")
  /\ tablas_creadas = TRUE
  /\ \E n \in TamanosLista :
       /\ tabla = [e \in Entidades |->
                     IF e = "heroes" THEN [i \in 1..n |-> FilaLista(i)] ELSE <<>>]
       /\ secuencia = [e \in Entidades |-> IF e = "heroes" THEN n + 1 ELSE 1]
  /\ sesiones = {}
  /\ pc = [p \in Procs |-> "idle"]
  /\ pet = [p \in Procs |-> Nulo]
  /\ obj = [p \in Procs |-> Nulo]
  /\ resp = [p \in Procs |-> Nulo]

PeticionesLista ==
  Listados({Nulo, Algun(0), Algun(1), Algun(LimiteMaximo)},
           {Nulo, Algun(0), Algun(1), Algun(LimiteMaximo), Algun(LimiteMaximo + 1),
            Algun(LimiteMaximo + 100)})

NextLista ==
  \/ \E r \in PeticionesLista : Recibir(1, r)
  \/ leer_heroes(1)
  \/ Entregar(1)

SpecLista == InitLista /\ [][NextLista]_vars

\* -------------------------------------------------------------- claims
\* The step in which p's request ends (its response is produced).
Termina(p) == pc[p] # "hecho" /\ pc'[p] = "hecho"

\* The step in which p's request arrives.
Llega(p) == pc[p] = "idle" /\ pc'[p] # "idle"

\* The request ended by a storage failure (connection lost and the like).
FalloDeAlmacen(r) == r.excepcion = "OperationalError"

\* Every row of table e other than id is the same before and after the step.
OtrasIguales(e, id) ==
  /\ \A k \in DOMAIN tabla[e] \ {id} : k \in DOMAIN tabla'[e] /\ tabla'[e][k] = tabla[e][k]
  /\ DOMAIN tabla'[e] \ {id} \subseteq DOMAIN tabla[e]
  /\ \A o \in Entidades \ {e} : tabla'[o] = tabla[o]

\* C1 (as claimed): a successful PATCH whose payload supplies exactly one
\* field sets that field of the stored record to the supplied value, leaves
\* every other field and every other record as they were, and returns the
\* stored record.
C1_PatchCambiaSoloEseCampo ==
  [][\A p \in Procs :
       (/\ Termina(p)
        /\ pc[p] = "cargado"
        /\ pet[p][1].metodo = "PATCH"
        /\ Cardinality(DOMAIN pet[p][1].cuerpo) = 1
        /\ resp'[p][1].status = 200)
       => LET r == pet[p][1]
              e == r.entidad
              id == r.id[1]
              f == CHOOSE g \in DOMAIN r.cuerpo : TRUE
          IN /\ id \in DOMAIN tabla[e] /\ id \in DOMAIN tabla'[e]
             /\ tabla'[e][id] = [tabla[e][id] EXCEPT ![f] = r.cuerpo[f]]
             /\ OtrasIguales(e, id)
             /\ resp'[p][1].filas = <<tabla'[e][id]>>]_vars

ClaveMala(r) == r.clave = Nulo \/ r.clave # API_CLAVE_SECRETA

\* The gate rejected the arriving request of p and nothing else happened.
Rechazada401(p) ==
  /\ pc'[p] = "hecho"
  /\ resp'[p][1].status = 401
  /\ tabla' = tabla /\ secuencia' = secuencia /\ sesiones' = sesiones

C4_NoEncontrado404 ==
  [][\A p \in Procs :
       (/\ Termina(p)
        /\ pet'[p][1].metodo \in {"GET", "DELETE"}
        /\ pet'[p][1].id # Nulo
        /\ ~ClaveMala(pet'[p][1])
        /\ motor_db # Nulo
        /\ pet'[p][1].id[1] \notin DOMAIN tabla[pet'[p][1].entidad]
        /\ ~FalloDeAlmacen(resp'[p][1]))
       => /\ resp'[p][1].status = 404
          /\ resp'[p][1].detail = NoEncontrado(pet'[p][1].entidad)
          /\ tabla' = tabla /\ secuencia' = secuencia]_vars

\* The heroes list request p has finished, without a storage failure.
ListaHecha(p) ==
  /\ pc[p] = "hecho"
  /\ pet[p][1].metodo = "GET"
  /\ pet[p][1].entidad = "heroes"
  /\ pet[p][1].id = Nulo
  /\ ~ClaveMala(pet[p][1])
  /\ ~FalloDeAlmacen(resp[p][1])

NumHeroes == Cardinality(DOMAIN tabla["heroes"])

\* C5 (as claimed): the hero list's limit is capped at 100 whatever the
\* caller asks for: every list request returns a page of at most 100 rows,
\* and with more than 100 heroes stored a request without query parameters
\* returns exactly 100.
C5_LimiteRecortado ==
  \A p \in Procs :
    ListaHecha(p)
    => /\ resp[p][1].status = 200
       /\ Len(resp[p][1].filas) <= LimiteMaximo
       /\ (pet[p][1].limite = Nulo /\ pet[p][1].desplazamiento = Nulo
             /\ NumHeroes > LimiteMaximo)
          => Len(resp[p][1].filas) = LimiteMaximo

\* C5 (amended): a hero list request whose limit is absent or at most 100
\* returns 200 with the rows after the offset, as many as the limit (default
\* 100) and the table allow, so never more than 100 and exactly 100 for a
\* request without parameters over more than 100 heroes; a request whose
\* limit exceeds 100 is rejected with 422 and returns no rows.
C5_LimiteValidado ==
  \A p \in Procs :
    ListaHecha(p)
    => LET r == pet[p][1]
           d == IF r.desplazamiento = Nulo THEN 0 ELSE r.desplazamiento[1]
           l == IF r.limite = Nulo THEN LimiteMaximo ELSE r.limite[1]
           quedan == IF NumHeroes > d THEN NumHeroes - d ELSE 0
           filas == resp[p][1].filas
       IN IF l > LimiteMaximo
            THEN resp[p][1].status = 422 /\ filas = <<>>
            ELSE /\ resp[p][1].status = 200
                 /\ Len(filas) = (IF l < quedan THEN l ELSE quedan)
                 /\ Len(filas) <= LimiteMaximo
                 /\ \A i \in 1..Len(filas) : filas[i] = tabla["heroes"][d + i]
                 /\ (r.limite = Nulo /\ r.desplazamiento = Nulo
                       /\ NumHeroes > LimiteMaximo)
                    => Len(filas) = LimiteMaximo

\* C5 witness: over more than 100 heroes, a request without parameters got
\* 100 rows.
C5_Witness ==
  \E p \in Procs :
    /\ ListaHecha(p)
    /\ NumHeroes > LimiteMaximo
    /\ pet[p][1].limite = Nulo /\ pet[p][1].desplazamiento = Nulo
    /\ resp[p][1].status = 200
    /\ Len(resp[p][1].filas) = LimiteMaximo

\* C6 (as claimed): every POST with a valid payload succeeds, with or
\* without an id in the payload; the stored row's key is the next value of
\* the table's sequence, not the client's value; no existing row changes.
C6_CrearIgnoraId ==
  [][\A p \in Procs :
       (/\ Termina(p)
        /\ pc[p] = "sesion"
        /\ pet[p][1].metodo = "POST"
        /\ \A f \in Requeridos(pet[p][1].entidad) :
             f \in DOMAIN pet[p][1].cuerpo /\ pet[p][1].cuerpo[f] # Nulo
        /\ ~FalloDeAlmacen(resp'[p][1]))
       => LET e == pet[p][1].entidad
          IN /\ resp'[p][1].status = 200
             /\ Len(resp'[p][1].filas) = 1
             /\ resp'[p][1].filas[1].id = Algun(secuencia[e])
             /\ secuencia[e] \in DOMAIN tabla'[e]
             /\ tabla'[e][secuencia[e]] = resp'[p][1].filas[1]
             /\ OtrasIguales(e, secuencia[e])]_vars

\* C7: a PATCH with an empty payload on an id that is in the table loads
\* the row (no 404) and, unless the storage fails, is answered 200 with the
\* stored row; whatever the outcome, every row of every table is the same
\* after the PATCH as before.
C7_PatchVacio ==
  [][\A p \in Procs :
       (/\ pc[p] \in {"sesion", "cargado"}
        /\ pc'[p] # pc[p]
        /\ pet[p][1].metodo = "PATCH"
        /\ DOMAIN pet[p][1].cuerpo = {})
       => LET e == pet[p][1].entidad
              id == pet[p][1].id[1]
          IN /\ tabla' = tabla
             /\ (id \in DOMAIN tabla[e] /\ pc'[p] = "hecho"
                   /\ ~FalloDeAlmacen(resp'[p][1]))
                => /\ pc[p] = "cargado"
                   /\ resp'[p][1].status = 200
                   /\ resp'[p][1].filas = <<tabla[e][id]>>]_vars

\* C7 witness: an empty PATCH was answered 200 while each table holds a row.
C7_Witness ==
  \E p \in Procs :
    /\ pc[p] = "hecho"
    /\ pet[p][1].metodo = "PATCH"
    /\ pet[p][1].entidad = "equipos"
    /\ DOMAIN pet[p][1].cuerpo = {}
    /\ resp[p][1].status = 200
    /\ \A e \in Entidades : DOMAIN tabla[e] = Ids

\* The DELETE of p has been answered {"ok": True}.
BorradoConfirmado(p) ==
  /\ pc[p] = "hecho"
  /\ pet[p][1].metodo = "DELETE"
  /\ resp[p][1].ok

\* C8 (as claimed): once a DELETE has answered {"ok": True} the row of that
\* id is absent from the table in every later state, whatever other requests
\* do meanwhile (here: for as long as the answer is held), and the DELETE
\* leaves the rows of other ids as they were.
C8_BorradoPermanente ==
  [][\A p \in Procs :
       /\ BorradoConfirmado(p)'
          => pet'[p][1].id[1] \notin DOMAIN tabla'[pet'[p][1].entidad]
       /\ (Termina(p) /\ BorradoConfirmado(p)')
          => OtrasIguales(pet[p][1].entidad, pet[p][1].id[1])]_vars

\* C9: a process holds an open session exactly while its request is between
\* session acquisition and its end; whenever no request is in flight, on
\* whatever path the requests ended, no session is open.
C9_SesionLiberada ==
  /\ \A p \in Procs : p \in sesiones <=> pc[p] \in {"sesion", "cargado"}
  /\ (\A p \in Procs : pc[p] \in {"idle", "hecho"}) => sesiones = {}

\* C9 witness: a PATCH whose row was deleted under it ended in the refresh
\* error, another request ended 404, and no session is left open.
C9_Witness ==
  /\ sesiones = {}
  /\ \E p \in Procs :
       /\ pc[p] = "hecho"
       /\ resp[p][1].excepcion = "InvalidRequestError"
  /\ \E p \in Procs :
       /\ pc[p] = "hecho"
       /\ resp[p][1].status = 404

\* C10: motor_db is set at most once, by the startup event and before any
\* request; a process holds a session only with the engine set and the
\* tables created; a request that reaches session acquisition with motor_db
\* unset fails with 500 and leaves it unset; a startup that fails aborts,
\* and an aborted process never handles a request.
C10_MotorSoloEnStartup ==
  [][/\ motor_db' # motor_db
        => /\ motor_db = Nulo
           /\ fase = "startup"
           /\ \A p \in Procs : pc[p] = "idle" /\ pet[p] = Nulo
     /\ (sesiones' # {}) => (motor_db' # Nulo /\ tablas_creadas')
     /\ (fase = "startup" /\ fase' = "serving" /\ motor_db' # motor_db) => tablas_creadas'
     /\ (fase = "startup" /\ motor_db' # Nulo /\ ~tablas_creadas') => fase' = "aborted"
     /\ (fase = "aborted") => (fase' = "aborted")
     /\ (fase' = "aborted") => \A p \in Procs : pc'[p] = "idle" /\ pet'[p] = Nulo
     /\ \A p \in Procs :
          (Llega(p) /\ motor_db = Nulo /\ ~ClaveMala(pet'[p][1])
             /\ <<pet'[p][1].metodo, pet'[p][1].entidad, pet'[p][1].id # Nulo>> \in Rutas)
          => /\ pc'[p] = "hecho"
             /\ resp'[p][1].status = 500
             /\ motor_db' = Nulo
             /\ p \notin sesiones'
             /\ tabla' = tabla]_vars

\* C10 witness: a request served without the startup event found motor_db
\* unset and failed at session acquisition.
C10_Witness ==
  \E p \in Procs :
    /\ pc[p] = "hecho"
    /\ motor_db = Nulo
    /\ fase = "serving"
    /\ resp[p][1].excepcion = "Exception"
    /\ resp[p][1].status = 500

====
